---- MODULE Spec2Model ----
(***************************************************************************)
(* A model of the node inspector (NodeModal) and the node editor           *)
(* (EditNodeModal) of the JSON graph visualiser: the path mutation          *)
(* updateJsonAtPath, the scalar coercion parseValue / valueToString, the    *)
(* save handler handleSave, and the two dialogs with their delayed          *)
(* setVisible callbacks.                                                    *)
(*                                                                         *)
(* Representation.  A JavaScript string is a tuple of one-character         *)
(* strings, so that the identifier pattern, String(n) and Number(text) are  *)
(* computed character by character.  A JavaScript value is a record         *)
(* [kind, val]: kind is "string", "number", "boolean", "null", "undefined", *)
(* "array" (val: the tuple of elements) or "object" (val: the tuple of      *)
(* <<key, value>> members in property order).  Numbers are integers.        *)
(***************************************************************************)
EXTENDS Integers, Sequences, FiniteSets

VARIABLES
    \* ---- the application: stores, dialogs, component state ----
    json,           \* document store: the serialized JSON text (useJson/useFile)
    selectedNode,   \* graph store: the selected node snapshot, or NoNode
    nodeVisible,    \* visibility controller: NodeModal shown
    editVisible,    \* visibility controller: EditNodeModal shown
    timers,         \* pending setTimeout(..., 100) callbacks, oldest first
    editState,      \* EditNodeModal's editState {key, value, type}
    isLoading,      \* EditNodeModal's isLoading
    error,          \* EditNodeModal's error (NoError for null)
    lastUser,       \* the user's last action on the graph or in a dialog
    saves,          \* number of successful saves so far
    inputs,         \* number of input events (key, type, value) so far
    fresh,          \* the snapshot was selected from the current document
                    \* and only successful saves changed either since
    \* ---- one call of updateJsonAtPath on drawn arguments ----
    mObj0,          \* the argument obj as passed
    mPath,          \* the argument path
    mNewValue,      \* the argument newValue
    mNewKey,        \* the argument newKey (Undefined when absent)
    mOut,           \* [threw, obj]: the call's outcome, obj as mutated
    mPc,            \* "call" before the call, "done" after it
    \* ---- one round trip parseValue(valueToString(x), typeOf(x)) ----
    cX,             \* the scalar x
    cText,          \* valueToString(x), once computed
    cBack,          \* parseValue(cText, typeOf(x)), once computed
    cPc             \* "start", "shown", "parsed"

appVars == <<json, selectedNode, nodeVisible, editVisible, timers, editState,
             isLoading, error, lastUser, saves, inputs, fresh>>
mutVars == <<mObj0, mPath, mNewValue, mNewKey, mOut, mPc>>
coerceVars == <<cX, cText, cBack, cPc>>
vars == <<appVars, mutVars, coerceVars>>

----------------------------------------------------------------------------
(* Bounds of the model *)

\* integers x of the round trip range over -MaxInt .. MaxInt
MaxInt == 120
\* at most this many successful saves in one behaviour
MaxSaves == 1
\* at most this many delayed callbacks pending at once
MaxTimers == 1
\* at most this many input events (key, type, value) in one behaviour
MaxInputs == 1
\* the paths given to updateJsonAtPath have at most this many segments
MaxPathLen == 3

----------------------------------------------------------------------------
(* Characters and strings *)

Digits == <<"0", "1", "2", "3", "4", "5", "6", "7", "8", "9">>
DigitChars == {Digits[i] : i \in 1..Len(Digits)}
DigitVal(c) == (CHOOSE i \in 1..Len(Digits) : Digits[i] = c) - 1
Letters ==
    {"a", "b", "c", "d", "e", "f", "g", "h", "i", "j", "k", "l", "m",
     "n", "o", "p", "q", "r", "s", "t", "u", "v", "w", "x", "y", "z",
     "A", "B", "C", "D", "E", "F", "G", "H", "I", "J", "K", "L", "M",
     "N", "O", "P", "Q", "R", "S", "T", "U", "V", "W", "X", "Y", "Z"}
WhiteSpace == {" "}

\* String.prototype.trim
RECURSIVE TrimLeft(_)
TrimLeft(s) ==
    IF s # <<>> /\ Head(s) \in WhiteSpace THEN TrimLeft(Tail(s)) ELSE s
RECURSIVE TrimRight(_)
TrimRight(s) ==
    IF s # <<>> /\ s[Len(s)] \in WhiteSpace
    THEN TrimRight(SubSeq(s, 1, Len(s) - 1)) ELSE s
Trim(s) == TrimRight(TrimLeft(s))

----------------------------------------------------------------------------
(* JavaScript values *)

Str(s) == [kind |-> "string", val |-> s]
Num(n) == [kind |-> "number", val |-> n]
Bool(b) == [kind |-> "boolean", val |-> b]
Null == [kind |-> "null", val |-> 0]
Undefined == [kind |-> "undefined", val |-> 0]
NaN == [kind |-> "NaN", val |-> 0]
Arr(items) == [kind |-> "array", val |-> items]
Obj(members) == [kind |-> "object", val |-> members]

IsContainer(v) == v.kind \in {"array", "object"}
IsScalar(v) == v.kind \in {"string", "number", "boolean", "null"}

\* the decimal digits of a natural number
RECURSIVE DigitsOf(_)
DigitsOf(n) ==
    IF n < 10 THEN <<Digits[n + 1]>>
    ELSE Append(DigitsOf(n \div 10), Digits[(n % 10) + 1])

\* String(n) for an integer n
NumberToString(n) == IF n < 0 THEN <<"-">> \o DigitsOf(-n) ELSE DigitsOf(n)

\* the value of a non-empty tuple of digits
RECURSIVE DigitsValue(_)
DigitsValue(ds) ==
    IF ds = <<>> THEN 0
    ELSE 10 * DigitsValue(SubSeq(ds, 1, Len(ds) - 1)) + DigitVal(ds[Len(ds)])

AllDigits(s) == s # <<>> /\ \A i \in 1..Len(s) : s[i] \in DigitChars

\* Number(text): white space is trimmed, the empty text is 0, an optional
\* sign and decimal digits are an integer, anything else is NaN.  (Texts
\* with a fraction, an exponent, a radix prefix or "Infinity" are not among
\* the texts this model draws.)
StringToNumber(text) ==
    LET t == Trim(text)
    IN  IF t = <<>> THEN Num(0)
        ELSE IF AllDigits(t) THEN Num(DigitsValue(t))
        ELSE IF Head(t) = "-" /\ AllDigits(Tail(t)) THEN Num(-DigitsValue(Tail(t)))
        ELSE IF Head(t) = "+" /\ AllDigits(Tail(t)) THEN Num(DigitsValue(Tail(t)))
        ELSE NaN

\* Number(value)
ToNumber(value) ==
    CASE value.kind = "number" -> value
      [] value.kind = "string" -> StringToNumber(value.val)
      [] value.kind = "boolean" -> Num(IF value.val THEN 1 ELSE 0)
      [] value.kind = "null" -> Num(0)
      [] OTHER -> NaN

\* String(value) for a scalar
JsString(value) ==
    CASE value.kind = "string" -> value.val
      [] value.kind = "number" -> NumberToString(value.val)
      [] value.kind = "boolean" ->
            IF value.val THEN <<"t", "r", "u", "e">>
            ELSE <<"f", "a", "l", "s", "e">>
      [] value.kind = "null" -> <<"n", "u", "l", "l">>
      [] OTHER -> <<"u", "n", "d", "e", "f", "i", "n", "e", "d">>

----------------------------------------------------------------------------
(* parseValue and valueToString *)

\* a parseValue whose number branch forgets the sign
parseValueUnsigned(value, type) ==
    CASE type = "null" -> Null
      [] type = "boolean" ->
            Bool(value = Str(<<"t", "r", "u", "e">>) \/ value = Bool(TRUE))
      [] type = "number" ->
            LET num == ToNumber(value)
            IN  IF num.kind = "NaN" THEN Num(0)
                ELSE Num(IF num.val < 0 THEN -num.val ELSE num.val)
      [] OTHER -> Str(JsString(value))

parseValue(value, type) ==
    CASE type = "null" -> Null
      [] type = "boolean" ->
            Bool(value = Str(<<"t", "r", "u", "e">>) \/ value = Bool(TRUE))
      [] type = "number" ->
            LET num == ToNumber(value)
            IN  IF num.kind = "NaN" THEN Num(0) ELSE num
      [] OTHER -> Str(JsString(value))

valueToString(value) ==
    CASE value.kind = "null" -> <<>>
      [] value.kind = "boolean" ->
            IF value.val THEN <<"t", "r", "u", "e">>
            ELSE <<"f", "a", "l", "s", "e">>
      [] OTHER -> JsString(value)

----------------------------------------------------------------------------
(* Objects and arrays as the JavaScript engine keeps them *)

\* ToPropertyKey(segment): the property name a segment selects
PropertyKey(segment) == JsString(segment)

\* an array index: a canonical numeric string ("0", "7", "12", not "07")
IsArrayIndex(key) == AllDigits(key) /\ (Len(key) = 1 \/ Head(key) # "0")

Keys(members) == [i \in 1..Len(members) |-> members[i][1]]
KeySet(members) == {members[i][1] : i \in 1..Len(members)}
HasKey(members, key) == key \in KeySet(members)
IndexOfKey(members, key) == CHOOSE i \in 1..Len(members) : members[i][1] = key
Member(members, key) == members[IndexOfKey(members, key)][2]

\* delete current[key]
ObjDelete(members, key) ==
    IF HasKey(members, key)
    THEN LET i == IndexOfKey(members, key)
         IN  SubSeq(members, 1, i - 1) \o SubSeq(members, i + 1, Len(members))
    ELSE members

\* where a new property lands: array-index keys in ascending numeric order
\* before every other key, other keys in creation order
InsertAt(members, key) ==
    IF IsArrayIndex(key)
    THEN Cardinality({i \in 1..Len(members) :
                /\ IsArrayIndex(members[i][1])
                /\ DigitsValue(members[i][1]) < DigitsValue(key)}) + 1
    ELSE Len(members) + 1

\* an assignment that always re-creates the property (delete, then add)
ObjSetMoving(members, key, value) ==
    LET rest == ObjDelete(members, key)
        at == InsertAt(rest, key)
    IN  SubSeq(rest, 1, at - 1) \o << <<key, value>> >> \o SubSeq(rest, at, Len(rest))

\* current[key] = value on an object
ObjSet(members, key, value) ==
    IF HasKey(members, key)
    THEN [members EXCEPT ![IndexOfKey(members, key)] = <<key, value>>]
    ELSE LET at == InsertAt(members, key)
         IN  SubSeq(members, 1, at - 1) \o << <<key, value>> >>
                 \o SubSeq(members, at, Len(members))

\* current[Number(segment)] = value on an array: an index past the end
\* extends the array, leaving holes; a key that is no index (NaN, negative)
\* creates a named property, which is no element and which JSON.stringify
\* does not write, so the elements stay as they are
ArrSet(items, num, value) ==
    [threw |-> FALSE,
     items |->
        IF num.kind = "number" /\ num.val >= 0
        THEN [i \in 1..(IF num.val + 1 > Len(items) THEN num.val + 1 ELSE Len(items)) |->
                IF i = num.val + 1 THEN value
                ELSE IF i <= Len(items) THEN items[i]
                ELSE Undefined]
        ELSE items]

\* current[segment] as the navigation loop reads it (lines 81-85):
\* [threw, value].  Reading a property of undefined or null throws a
\* TypeError; a primitive has no own members but a string has its
\* characters.
GetProp(current, segment) ==
    CASE current.kind \in {"undefined", "null"} ->
            [threw |-> TRUE, value |-> Undefined]
      [] current.kind = "array" ->
            LET num == ToNumber(segment)
            IN  [threw |-> FALSE,
                 value |-> IF num.kind = "number" /\ num.val >= 0
                              /\ num.val < Len(current.val)
                           THEN current.val[num.val + 1] ELSE Undefined]
      [] current.kind = "object" ->
            [threw |-> FALSE,
             value |-> IF HasKey(current.val, PropertyKey(segment))
                       THEN Member(current.val, PropertyKey(segment))
                       ELSE Undefined]
      [] current.kind = "string" ->
            LET key == PropertyKey(segment)
            IN  [threw |-> FALSE,
                 value |-> IF IsArrayIndex(key) /\ DigitsValue(key) < Len(current.val)
                           THEN Str(<<current.val[DigitsValue(key) + 1]>>)
                           ELSE Undefined]
      [] OTHER -> [threw |-> FALSE, value |-> Undefined]

\* `newKey && newKey !== lastSegment`
KeyChanged(newKey, lastSegment) ==
    /\ newKey.kind = "string"
    /\ newKey.val # <<>>
    /\ newKey # lastSegment

\* lines 88-103: the assignment at the parent `current`.  The module is
\* strict-mode code: assigning a property of a primitive, of undefined or of
\* null throws a TypeError.
Terminal(current, lastSegment, newValue, newKey) ==
    CASE current.kind = "array" ->
            LET r == ArrSet(current.val, ToNumber(lastSegment), newValue)
            IN  [threw |-> r.threw, obj |-> Arr(r.items)]
      [] current.kind = "object" ->
            IF KeyChanged(newKey, lastSegment)
            THEN [threw |-> FALSE,
                  obj |-> Obj(ObjSet(ObjDelete(current.val, PropertyKey(lastSegment)),
                                     newKey.val, newValue))]
            ELSE [threw |-> FALSE,
                  obj |-> Obj(ObjSet(current.val, PropertyKey(lastSegment), newValue))]
      [] OTHER -> [threw |-> TRUE, obj |-> current]

\* the container `current` with the child that `segment` selects replaced
PutChild(current, segment, child) ==
    IF current.kind = "array"
    THEN Arr([current.val EXCEPT ![ToNumber(segment).val + 1] = child])
    ELSE Obj([current.val EXCEPT
                ![IndexOfKey(current.val, PropertyKey(segment))] =
                    <<PropertyKey(segment), child>>])

\* updateJsonAtPath(obj, path, newValue, newKey): [threw, obj], obj being
\* the argument as the call leaves it.  The loop of lines 79-86 descends
\* path[0 .. length-2]; the empty path has lastSegment undefined.
RECURSIVE updateJsonAtPath(_, _, _, _)
updateJsonAtPath(obj, path, newValue, newKey) ==
    IF Len(path) = 0 THEN Terminal(obj, Undefined, newValue, newKey)
    ELSE IF Len(path) = 1 THEN Terminal(obj, path[1], newValue, newKey)
    ELSE LET got == GetProp(obj, Head(path))
         IN  IF got.threw THEN [threw |-> TRUE, obj |-> obj]
             ELSE LET r == updateJsonAtPath(got.value, Tail(path), newValue, newKey)
                  IN  IF r.threw \/ ~IsContainer(got.value)
                      THEN [threw |-> r.threw, obj |-> obj]
                      ELSE [threw |-> FALSE, obj |-> PutChild(obj, Head(path), r.obj)]

----------------------------------------------------------------------------
(* JSON paths, the document text and the node snapshots *)

\* the member or element of v that a path segment addresses: a string
\* selects a member of a mapping, a non-negative integer an element of a
\* sequence; Undefined when there is none
Child(v, segment) ==
    CASE v.kind = "object" /\ segment.kind = "string" /\ HasKey(v.val, segment.val) ->
            Member(v.val, segment.val)
      [] v.kind = "array" /\ segment.kind = "number"
            /\ segment.val >= 0 /\ segment.val < Len(v.val) ->
            v.val[segment.val + 1]
      [] OTHER -> Undefined

RECURSIVE ValueAt(_, _)
ValueAt(v, path) ==
    IF path = <<>> THEN v ELSE ValueAt(Child(v, Head(path)), Tail(path))

ParentPath(path) == SubSeq(path, 1, Len(path) - 1)
Last(path) == path[Len(path)]

\* the paths of all values inside v, v itself included
RECURSIVE PathsOf(_)
PathsOf(v) ==
    {<<>>} \cup
    (CASE v.kind = "object" ->
            UNION {{<<Str(v.val[i][1])>> \o q : q \in PathsOf(v.val[i][2])} :
                        i \in 1..Len(v.val)}
       [] v.kind = "array" ->
            UNION {{<<Num(i - 1)>> \o q : q \in PathsOf(v.val[i])} :
                        i \in 1..Len(v.val)}
       [] OTHER -> {})

\* what JSON.stringify writes for an in-memory value: a hole of an array is
\* written as null
RECURSIVE Written(_)
Written(v) ==
    CASE v.kind = "array" -> Arr([i \in 1..Len(v.val) |-> Written(v.val[i])])
      [] v.kind = "object" ->
            Obj([i \in 1..Len(v.val) |-> <<v.val[i][1], Written(v.val[i][2])>>])
      [] v.kind = "undefined" -> Null
      [] OTHER -> v

\* A document text is kept as [valid, indent, value]: whether it parses,
\* its indentation, and the value it denotes.
Text(indent, value) == [valid |-> TRUE, indent |-> indent, value |-> value]
BadText == [valid |-> FALSE, indent |-> 0, value |-> Undefined]

\* JSON.parse(json): [threw, value]; a SyntaxError when the text is no JSON
JSONParse(text) ==
    IF text.valid THEN [threw |-> FALSE, value |-> text.value]
    ELSE [threw |-> TRUE, value |-> Undefined]

\* JSON.stringify(parsedJson, null, 2)
JSONStringify(value) == Text(2, Written(value))

\* `x` in a boolean context, for the values a key can be
Truthy(x) ==
    CASE x.kind = "string" -> x.val # <<>>
      [] x.kind = "number" -> x.val # 0
      [] x.kind = "boolean" -> x.val
      [] x.kind \in {"null", "undefined", "NaN"} -> FALSE
      [] OTHER -> TRUE

\* A snapshot is [none, hasPath, path, text]: none for a null selectedNode,
\* hasPath false for a snapshot whose optional path is undefined.
NoNode == [none |-> TRUE, hasPath |-> FALSE, path |-> <<>>, text |-> <<>>]
Node(path, rows) == [none |-> FALSE, hasPath |-> TRUE, path |-> path, text |-> rows]

\* one row of a snapshot: the value of a boolean is its display string, the
\* value of a container is not shown
Row(key, v) ==
    [key |-> key,
     value |-> CASE v.kind = "boolean" -> Str(JsString(v))
                 [] IsContainer(v) -> Null
                 [] OTHER -> v,
     type |-> v.kind]

\* the snapshot of the element at `path`: one row per member of an object, a
\* single row without key for a primitive
NodeAt(doc, path) ==
    LET v == ValueAt(doc, path)
    IN  IF v.kind = "object"
        THEN Node(path, [i \in 1..Len(v.val) |-> Row(Str(v.val[i][1]), v.val[i][2])])
        ELSE Node(path, <<Row(Null, v)>>)

\* the elements of the document the graph shows as nodes: every non-empty
\* object, every primitive element of an array, a primitive root
NodePaths(doc) ==
    {q \in PathsOf(doc) :
        LET v == ValueAt(doc, q)
        IN  \/ v.kind = "object" /\ v.val # <<>>
            \/ /\ IsScalar(v)
               /\ (q = <<>> \/ ValueAt(doc, ParentPath(q)).kind = "array")}

----------------------------------------------------------------------------
(* NodeModal *)

isEditableNode(nodeData) ==
    IF nodeData.none \/ Len(nodeData.text) = 0 THEN FALSE
    ELSE LET textRow == nodeData.text[1]
         IN  textRow.type # "object" /\ textRow.type # "array"

----------------------------------------------------------------------------
(* EditNodeModal *)

NoError == "null"
ErrNoPath == "Unable to determine node path"
ErrKeyEmpty == "Key cannot be empty"
ErrKeyInvalid == "Key must be a valid identifier"
\* the message of the SyntaxError JSON.parse throws
ErrSyntax == "SyntaxError"
\* the message of the TypeError a property access or assignment throws
ErrType == "TypeError"

InitialEditState == [key |-> Null, value |-> Str(<<>>), type |-> "string"]

\* the state the effect of lines 61-73 sets from the snapshot's first row
EffectState(node) ==
    LET textRow == node.text[1]
    IN  [key |-> IF Truthy(textRow.key) THEN textRow.key ELSE Null,
         value |-> IF textRow.value # Null THEN textRow.value ELSE Str(<<>>),
         type |-> IF textRow.type \in {"object", "array"} THEN "null"
                  ELSE textRow.type]

\* /^[a-zA-Z_$][a-zA-Z0-9_$]*$/.test(key)
IdentifierPattern(key) ==
    /\ key # <<>>
    /\ Head(key) \in Letters \cup {"_", "$"}
    /\ \A i \in 2..Len(key) : key[i] \in Letters \cup DigitChars \cup {"_", "$"}

\* lines 116-126: the message of the key validation, NoError when it passes
\* or is skipped (`editState.key &&` skips a null key)
ValidateKey(key) ==
    IF Truthy(key) /\ key.kind = "string"
    THEN IF Trim(key.val) = <<>> THEN ErrKeyEmpty
         ELSE IF ~IdentifierPattern(key.val) THEN ErrKeyInvalid
         ELSE NoError
    ELSE NoError

\* lines 132-138
TargetPath(node) ==
    LET textRow == node.text[1]
    IN  IF Truthy(textRow.key) THEN Append(node.path, textRow.key) ELSE node.path

\* line 144
NewKeyArg(node, es) ==
    IF Truthy(es.key) /\ es.key # node.text[1].key THEN es.key ELSE Undefined

\* line 154
DisplayValue(newValue) ==
    IF newValue.kind = "boolean" THEN Str(JsString(newValue)) ELSE newValue

\* lines 156-170
UpdatedNode(node, es, newValue) ==
    [node EXCEPT !.text =
        [idx \in 1..Len(node.text) |->
            IF idx = 1
            THEN [key |-> IF Truthy(es.key) THEN es.key ELSE node.text[1].key,
                  value |-> DisplayValue(newValue),
                  type |-> es.type]
            ELSE node.text[idx]]]

Failed(message, text, node) ==
    [ok |-> FALSE, error |-> message, json |-> text, node |-> node]

\* a save that writes the document before it validates the key
SaveOutcomeEager(node, text, es) ==
    IF node.none \/ ~node.hasPath THEN Failed(ErrNoPath, text, node)
    ELSE LET parsed == JSONParse(text)
         IN  IF parsed.threw THEN Failed(ErrSyntax, text, node)
             ELSE LET newValue == parseValue(es.value, es.type)
                      upd == updateJsonAtPath(parsed.value, TargetPath(node),
                                              newValue, NewKeyArg(node, es))
                  IN  IF upd.threw THEN Failed(ErrType, text, node)
                      ELSE IF ValidateKey(es.key) # NoError
                      THEN Failed(ValidateKey(es.key), JSONStringify(upd.obj), node)
                      ELSE [ok |-> TRUE, error |-> NoError,
                            json |-> JSONStringify(upd.obj),
                            node |-> UpdatedNode(node, es, newValue)]

\* lines 107-187: what one run of handleSave leaves: whether it reached
\* onClose, the error message, the document text and the snapshot
SaveOutcome(node, text, es) ==
    IF node.none \/ ~node.hasPath THEN Failed(ErrNoPath, text, node)
    ELSE IF ValidateKey(es.key) # NoError THEN Failed(ValidateKey(es.key), text, node)
    ELSE LET parsed == JSONParse(text)
         IN  IF parsed.threw THEN Failed(ErrSyntax, text, node)
             ELSE IF Len(node.text) = 0 THEN Failed(ErrType, text, node)
             ELSE LET newValue == parseValue(es.value, es.type)
                      upd == updateJsonAtPath(parsed.value, TargetPath(node),
                                              newValue, NewKeyArg(node, es))
                  IN  IF upd.threw THEN Failed(ErrType, text, node)
                      ELSE [ok |-> TRUE, error |-> NoError,
                            json |-> JSONStringify(upd.obj),
                            node |-> UpdatedNode(node, es, newValue)]

----------------------------------------------------------------------------
(* The inputs of the application *)

\* {"a": 1, "c": {"o": ["s", true]}}
DocFull ==
    Obj(<< <<<<"a">>, Num(1)>>,
           <<<<"c">>, Obj(<< <<<<"o">>, Arr(<<Str(<<"s">>), Bool(TRUE)>>)>> >>)>> >>)
\* {"a": 1}
DocSmall == Obj(<< <<<<"a">>, Num(1)>> >>)

\* the texts the document store is given from outside the dialogs
AppTexts == {Text(0, DocSmall), BadText}

\* what the user types into the key input
KeyTexts ==
    {<<>>, <<" ">>, <<"1", "a", "b", "c">>, <<"a", "-", "b">>,
     <<"_", "x", "1">>, <<"$", "f", "o", "o">>,
     <<"a", "b", "c", "D", "E", "F">>, <<"c">>}
\* what the user types into the string input
ValueTexts == {<<"h", "i">>, <<"7">>}
\* what the number input reports: a number, or "" when it is cleared
NumberInputs == {Num(7), Num(0), Str(<<>>)}
Types == {"string", "number", "boolean", "null"}

\* the snapshots a click on the graph can select: one per node, and, the
\* path of a snapshot being optional, the root node's without its path
SelectableNodes(doc) ==
    {NodeAt(doc, q) : q \in NodePaths(doc)}
        \cup {[NodeAt(doc, q) EXCEPT !.hasPath = FALSE] : q \in NodePaths(doc) \cap {<<>>}}

----------------------------------------------------------------------------
(* The application: initial state and handlers *)

MutIdle ==
    /\ mObj0 = Null /\ mPath = <<>> /\ mNewValue = Null /\ mNewKey = Undefined
    /\ mOut = [threw |-> FALSE, obj |-> Null] /\ mPc = "idle"
CoerceIdle == cX = Null /\ cText = <<>> /\ cBack = Null /\ cPc = "idle"
AppIdle ==
    /\ json = BadText /\ selectedNode = NoNode
    /\ nodeVisible = FALSE /\ editVisible = FALSE /\ timers = <<>>
    /\ editState = InitialEditState /\ isLoading = FALSE /\ error = NoError
    /\ lastUser = "idle" /\ saves = 0 /\ inputs = 0 /\ fresh = FALSE

Init ==
    /\ json = Text(2, DocFull)
    /\ selectedNode = NoNode
    /\ nodeVisible = FALSE
    /\ editVisible = FALSE
    /\ timers = <<>>
    /\ editState = InitialEditState
    /\ isLoading = FALSE
    /\ error = NoError
    /\ lastUser = "none"
    /\ saves = 0
    /\ inputs = 0
    /\ fresh = FALSE
    /\ MutIdle
    /\ CoerceIdle

\* the document store is given a new text by the text editor, which the
\* user reaches while no dialog covers it
SetJson ==
    /\ ~nodeVisible /\ ~editVisible
    /\ \E text \in AppTexts : json' = text
    /\ fresh' = FALSE
    /\ UNCHANGED <<lastUser, selectedNode, nodeVisible, editVisible, timers, editState,
                   isLoading, error, saves, inputs, mutVars, coerceVars>>

\* a click on a node of the graph: the snapshot is produced and the
\* inspector shown
SelectNode ==
    /\ ~nodeVisible /\ ~editVisible
    /\ json.valid
    /\ \E node \in SelectableNodes(json.value) : selectedNode' = node
    /\ nodeVisible' = TRUE
    /\ fresh' = TRUE
    /\ lastUser' = "select"
    /\ UNCHANGED <<json, editVisible, timers, editState, isLoading, error,
                   saves, inputs, mutVars, coerceVars>>

\* NodeModal's onClose (its close button): setVisible("NodeModal", false)
CloseNodeModal ==
    /\ nodeVisible
    /\ nodeVisible' = FALSE
    /\ lastUser' = "closeNode"
    /\ UNCHANGED <<json, selectedNode, editVisible, timers, editState,
                   isLoading, error, saves, inputs, fresh, mutVars, coerceVars>>

\* NodeModal's handleEdit; the button is rendered when isEditable
handleEdit ==
    /\ nodeVisible
    /\ isEditableNode(selectedNode)
    /\ Len(timers) < MaxTimers
    /\ nodeVisible' = FALSE
    /\ timers' = Append(timers, "EditNodeModal")
    /\ lastUser' = "edit"
    /\ UNCHANGED <<json, selectedNode, editVisible, editState, isLoading,
                   error, saves, inputs, fresh, mutVars, coerceVars>>

\* the oldest delayed callback runs: setVisible(name, true).  When it opens
\* EditNodeModal, the effect of lines 61-73 runs on the snapshot.
TimerFire ==
    /\ timers # <<>>
    /\ timers' = Tail(timers)
    /\ IF Head(timers) = "NodeModal"
       THEN /\ nodeVisible' = TRUE
            /\ UNCHANGED <<editVisible, editState, error>>
       ELSE /\ editVisible' = TRUE
            /\ IF ~editVisible /\ ~selectedNode.none
               THEN /\ editState' = EffectState(selectedNode)
                    /\ error' = NoError
               ELSE UNCHANGED <<editState, error>>
            /\ UNCHANGED nodeVisible
    /\ UNCHANGED <<lastUser, json, selectedNode, isLoading, saves, inputs, fresh, mutVars, coerceVars>>

\* the key input's onChange; the input is rendered when the first row's key
\* is not null and enabled when it is not empty
ChangeKey ==
    /\ editVisible
    /\ inputs < MaxInputs
    /\ inputs' = inputs + 1
    /\ ~selectedNode.none
    /\ selectedNode.text[1].key # Null
    /\ Truthy(selectedNode.text[1].key)
    /\ \E text \in KeyTexts :
          editState' = [editState EXCEPT !.key = IF text = <<>> THEN Null ELSE Str(text)]
    /\ error' = NoError
    /\ lastUser' = "input"
    /\ UNCHANGED <<json, selectedNode, nodeVisible, editVisible, timers,
                   isLoading, saves, fresh, mutVars, coerceVars>>

\* the type select's onChange
ChangeType ==
    /\ editVisible
    /\ inputs < MaxInputs
    /\ inputs' = inputs + 1
    /\ \E type \in Types : editState' = [editState EXCEPT !.type = type]
    /\ lastUser' = "input"
    /\ UNCHANGED <<json, selectedNode, nodeVisible, editVisible, timers,
                   isLoading, error, saves, fresh, mutVars, coerceVars>>

\* the string input's onChange, rendered when the type is "string"
ChangeString ==
    /\ editVisible
    /\ inputs < MaxInputs
    /\ inputs' = inputs + 1
    /\ editState.type = "string"
    /\ \E text \in ValueTexts : editState' = [editState EXCEPT !.value = Str(text)]
    /\ lastUser' = "input"
    /\ UNCHANGED <<json, selectedNode, nodeVisible, editVisible, timers,
                   isLoading, error, saves, fresh, mutVars, coerceVars>>

\* the number input's onChange, rendered when the type is "number": `value || 0`
ChangeNumber ==
    /\ editVisible
    /\ inputs < MaxInputs
    /\ inputs' = inputs + 1
    /\ editState.type = "number"
    /\ \E value \in NumberInputs :
          editState' = [editState EXCEPT !.value = IF Truthy(value) THEN value ELSE Num(0)]
    /\ lastUser' = "input"
    /\ UNCHANGED <<json, selectedNode, nodeVisible, editVisible, timers,
                   isLoading, error, saves, fresh, mutVars, coerceVars>>

\* the checkbox's onChange, rendered when the type is "boolean"
ChangeChecked ==
    /\ editVisible
    /\ inputs < MaxInputs
    /\ inputs' = inputs + 1
    /\ editState.type = "boolean"
    /\ \E checked \in BOOLEAN : editState' = [editState EXCEPT !.value = Bool(checked)]
    /\ lastUser' = "input"
    /\ UNCHANGED <<json, selectedNode, nodeVisible, editVisible, timers,
                   isLoading, error, saves, fresh, mutVars, coerceVars>>

\* the Save button: handleSave runs to its end in one turn of the event
\* loop (it awaits nothing), so isLoading is false again when it returns
handleSave ==
    /\ editVisible
    /\ LET out == SaveOutcome(selectedNode, json, editState)
       IN  /\ out.ok => saves < MaxSaves /\ Len(timers) < MaxTimers
           /\ json' = out.json
           /\ selectedNode' = out.node
           /\ error' = out.error
           /\ isLoading' = FALSE
           /\ IF out.ok
              THEN /\ editVisible' = FALSE
                   /\ timers' = Append(timers, "NodeModal")
                   /\ saves' = saves + 1
                   /\ lastUser' = "saveOk"
              ELSE /\ UNCHANGED <<editVisible, timers, saves>>
                   /\ lastUser' = "saveFailed"
    /\ UNCHANGED <<nodeVisible, editState, inputs, fresh, mutVars, coerceVars>>

\* a close that schedules nothing
handleCloseOnly ==
    /\ editVisible
    /\ editVisible' = FALSE
    /\ lastUser' = "closeEdit"
    /\ UNCHANGED <<json, selectedNode, nodeVisible, timers, editState, isLoading,
                   error, saves, inputs, fresh, mutVars, coerceVars>>

\* EditNodeModal's handleClose: the close button and Cancel
handleClose ==
    /\ editVisible
    /\ Len(timers) < MaxTimers
    /\ editVisible' = FALSE
    /\ timers' = Append(timers, "NodeModal")
    /\ lastUser' = "closeEdit"
    /\ UNCHANGED <<json, selectedNode, nodeVisible, editState, isLoading,
                   error, saves, inputs, fresh, mutVars, coerceVars>>

Next ==
    \/ SetJson
    \/ SelectNode
    \/ CloseNodeModal
    \/ handleEdit
    \/ TimerFire
    \/ ChangeKey
    \/ ChangeType
    \/ ChangeString
    \/ ChangeNumber
    \/ ChangeChecked
    \/ handleSave
    \/ handleClose

Spec == Init /\ [][Next]_vars

\* a delayed callback that is pending runs
FairSpec == Spec /\ WF_vars(TimerFire)

----------------------------------------------------------------------------
(* One call of updateJsonAtPath on drawn arguments *)

\* {"a": 1, "b": [10, 20]}
MutDocArray == Obj(<< <<<<"a">>, Num(1)>>, <<<<"b">>, Arr(<<Num(10), Num(20)>>)>> >>)
\* {"a": 1, "b": 2, "c": {"x": true, "b": ["s"]}}
MutDocNested ==
    Obj(<< <<<<"a">>, Num(1)>>,
           <<<<"b">>, Num(2)>>,
           <<<<"c">>, Obj(<< <<<<"x">>, Bool(TRUE)>>,
                             <<<<"b">>, Arr(<<Str(<<"s">>)>>)>> >>)>> >>)
\* [{"1": null, "a": 1}, 5]
MutDocList ==
    Arr(<<Obj(<< <<<<"1">>, Null>>, <<<<"a">>, Num(1)>> >>), Num(5)>>)
MutDocs == {MutDocArray, MutDocNested, MutDocList}

MutSegments ==
    {Str(<<"a">>), Str(<<"b">>), Str(<<"c">>), Str(<<"x">>), Str(<<"1">>),
     Num(0), Num(1), Num(5)}
MutValues == {Num(99), Str(<<"s">>)}
MutNewKeys ==
    {Undefined, Str(<<>>), Str(<<"z">>), Str(<<"a">>), Str(<<"b">>), Str(<<"0">>)}

RECURSIVE PathsUpTo(_)
PathsUpTo(n) ==
    IF n = 0 THEN {<<>>}
    ELSE LET shorter == PathsUpTo(n - 1)
         IN  shorter \cup {Append(q, s) : q \in {r \in shorter : Len(r) = n - 1},
                                           s \in MutSegments}

MutInit ==
    /\ mObj0 \in MutDocs
    /\ mPath \in PathsUpTo(MaxPathLen)
    /\ mNewValue \in MutValues
    /\ mNewKey \in MutNewKeys
    /\ mOut = [threw |-> FALSE, obj |-> mObj0]
    /\ mPc = "call"
    /\ AppIdle
    /\ CoerceIdle

MutCall ==
    /\ mPc = "call"
    /\ mOut' = updateJsonAtPath(mObj0, mPath, mNewValue, mNewKey)
    /\ mPc' = "done"
    /\ UNCHANGED <<mObj0, mPath, mNewValue, mNewKey, appVars, coerceVars>>

MutNext == MutCall

SpecMutate == MutInit /\ [][MutNext]_vars

----------------------------------------------------------------------------
(* One round trip through valueToString and parseValue *)

CoerceTexts ==
    {<<>>, <<"7">>, <<"-", "0", "5">>, <<" ", "a">>, <<"t", "r", "u", "e">>,
     <<"n", "u", "l", "l">>}
CoerceValues ==
    {Bool(TRUE), Bool(FALSE), Null}
        \cup {Num(n) : n \in -MaxInt..MaxInt}
        \cup {Str(s) : s \in CoerceTexts}

\* the declared type of a scalar
typeOf(x) == x.kind

CoerceInit ==
    /\ cX \in CoerceValues
    /\ cText = <<>>
    /\ cBack = Null
    /\ cPc = "start"
    /\ AppIdle
    /\ MutIdle

CoerceShow ==
    /\ cPc = "start"
    /\ cText' = valueToString(cX)
    /\ cPc' = "shown"
    /\ UNCHANGED <<cX, cBack, appVars, mutVars>>

CoerceParse ==
    /\ cPc = "shown"
    /\ cBack' = parseValue(Str(cText), typeOf(cX))
    /\ cPc' = "parsed"
    /\ UNCHANGED <<cX, cText, appVars, mutVars>>

CoerceNext == CoerceShow \/ CoerceParse

SpecCoerce == CoerceInit /\ [][CoerceNext]_vars

----------------------------------------------------------------------------
(* Notions the properties are stated in *)

\* v with the value at `path` blanked, every key and position kept
RECURSIVE Erased(_, _)
Erased(v, path) ==
    IF path = <<>> THEN Undefined
    ELSE IF Child(v, Head(path)) = Undefined /\ ~(v.kind = "object"
                /\ Head(path).kind = "string" /\ HasKey(v.val, Head(path).val))
    THEN v
    ELSE IF v.kind = "object"
    THEN Obj([i \in 1..Len(v.val) |->
                IF v.val[i][1] = Head(path).val
                THEN <<v.val[i][1], Erased(v.val[i][2], Tail(path))>>
                ELSE v.val[i]])
    ELSE Arr([i \in 1..Len(v.val) |->
                IF i = Head(path).val + 1 THEN Erased(v.val[i], Tail(path))
                ELSE v.val[i]])

\* v with the member or element at `path` removed
RECURSIVE Removed(_, _)
Removed(v, path) ==
    IF path = <<>> \/ Child(v, Head(path)) = Undefined THEN v
    ELSE IF Len(path) = 1
    THEN IF v.kind = "object" THEN Obj(ObjDelete(v.val, Head(path).val))
         ELSE Arr(SubSeq(v.val, 1, Head(path).val)
                    \o SubSeq(v.val, Head(path).val + 2, Len(v.val)))
    ELSE IF v.kind = "object"
    THEN Obj([i \in 1..Len(v.val) |->
                IF v.val[i][1] = Head(path).val
                THEN <<v.val[i][1], Removed(v.val[i][2], Tail(path))>>
                ELSE v.val[i]])
    ELSE Arr([i \in 1..Len(v.val) |->
                IF i = Head(path).val + 1 THEN Removed(v.val[i], Tail(path))
                ELSE v.val[i]])

\* the parent of the target of the drawn call, before and after it
MutParent == ValueAt(mObj0, ParentPath(mPath))
MutParentAfter == ValueAt(mOut.obj, ParentPath(mPath))

\* the drawn call addresses the member k of a mapping
MutTargetsMember ==
    /\ mPath # <<>>
    /\ MutParent.kind = "object"
    /\ Last(mPath).kind = "string"
    /\ HasKey(MutParent.val, Last(mPath).val)

\* the value the code reaches from v along `path`, Undefined when it throws
RECURSIVE Navigated(_, _)
Navigated(v, path) ==
    IF path = <<>> THEN v
    ELSE LET got == GetProp(v, Head(path))
         IN  IF got.threw THEN Undefined ELSE Navigated(got.value, Tail(path))

\* the key input is rendered (line 214) and what it shows (line 218)
KeyInputShown(node) ==
    ~node.none /\ Len(node.text) > 0 /\ node.text[1].key # Null
ProposedKey(es) == IF Truthy(es.key) THEN es.key.val ELSE <<>>

\* the ways a save fails: no node path, a key that fails validation, a text
\* that is no JSON, a non-terminal segment that reaches no container
SaveMustFail(node, text, es) ==
    \/ node.none \/ ~node.hasPath
    \/ ValidateKey(es.key) # NoError
    \/ ~text.valid
    \/ /\ Len(node.text) > 0
       /\ \E n \in 1..(Len(TargetPath(node)) - 1) :
             ~IsContainer(Navigated(text.value, SubSeq(TargetPath(node), 1, n)))

\* a row of the snapshot shows the document's value v
RowShows(row, v) ==
    IF row.type \in {"object", "array"} THEN v.kind = row.type
    ELSE IsScalar(v) /\ v = parseValue(row.value, row.type)

\* the snapshot agrees with the document
SnapshotAgrees(node, doc) ==
    LET element == ValueAt(doc, node.path)
        rows == node.text
    IN  /\ Len(rows) > 0
        /\ IF rows[1].key = Null
           THEN element # Undefined /\ RowShows(rows[1], element)
           ELSE /\ element.kind = "object"
                /\ HasKey(element.val, rows[1].key.val)
                /\ RowShows(rows[1], Member(element.val, rows[1].key.val))
        /\ \A i \in 2..Len(rows) :
              /\ element.kind = "object"
              /\ HasKey(element.val, rows[i].key.val)
              /\ rows[i] = Row(rows[i].key, Member(element.val, rows[i].key.val))
        /\ \A i, j \in 1..Len(rows) : i # j => rows[i].key # rows[j].key

----------------------------------------------------------------------------
(* Properties of updateJsonAtPath *)

\* C1: a call without newKey on a path that resolves to a primitive in the
\* input does not fail, returns a value holding newValue at that path and
\* equal to the input everywhere else: same members, same keys in the same
\* order, same array lengths, the same kind of container at every ancestor.
C1_InPlaceUpdate ==
    (/\ mPc = "done"
     /\ mPath # <<>>
     /\ IsScalar(ValueAt(mObj0, mPath))
     /\ mNewKey = Undefined)
    => /\ ~mOut.threw
       /\ ValueAt(mOut.obj, mPath) = mNewValue
       /\ Erased(mOut.obj, mPath) = Erased(mObj0, mPath)
       /\ Removed(mOut.obj, mPath) = Removed(mObj0, mPath)
       /\ \A n \in 0..(Len(mPath) - 1) :
             ValueAt(mOut.obj, SubSeq(mPath, 1, n)).kind
                = ValueAt(mObj0, SubSeq(mPath, 1, n)).kind

\* C1: an element three levels down, under a mapping and an array, was updated
C1_Witness ==
    /\ mPc = "done"
    /\ mObj0 = MutDocNested
    /\ mPath = <<Str(<<"c">>), Str(<<"b">>), Num(0)>>
    /\ mNewKey = Undefined
    /\ mNewValue = Num(99)
    /\ ~mOut.threw
    /\ ValueAt(mOut.obj, mPath) = Num(99)

\* C2: when the target is the member k of a mapping and newKey is a different
\* valid key, the returned mapping differs from the input's in exactly this:
\* k is absent, newKey is present with newValue, and every other member,
\* a sibling already named newKey included, keeps its key and its value.
C2_RenameKeepsSiblings ==
    (/\ mPc = "done"
     /\ MutTargetsMember
     /\ mNewKey.kind = "string"
     /\ mNewKey.val # Last(mPath).val
     /\ IdentifierPattern(mNewKey.val))
    => /\ ~mOut.threw
       /\ MutParentAfter.kind = "object"
       /\ ~HasKey(MutParentAfter.val, Last(mPath).val)
       /\ HasKey(MutParentAfter.val, mNewKey.val)
       /\ Member(MutParentAfter.val, mNewKey.val) = mNewValue
       /\ KeySet(MutParentAfter.val)
            = (KeySet(MutParent.val) \ {Last(mPath).val}) \cup {mNewKey.val}
       /\ \A i \in 1..Len(MutParent.val) :
             MutParent.val[i][1] # Last(mPath).val
             => /\ HasKey(MutParentAfter.val, MutParent.val[i][1])
                /\ Member(MutParentAfter.val, MutParent.val[i][1])
                     = MutParent.val[i][2]

\* C3: a call whose last segment is an index outside the bounds of the array
\* it addresses fails, and the array, so also the serialised document, is
\* left as it was.
C3_OutOfRangeFails ==
    (/\ mPc = "done"
     /\ mPath # <<>>
     /\ MutParent.kind = "array"
     /\ Last(mPath).kind = "number"
     /\ Last(mPath).val >= Len(MutParent.val))
    => /\ mOut.threw
       /\ mOut.obj = mObj0
       /\ JSONStringify(mOut.obj) = JSONStringify(mObj0)

\* C9: when a member of a mapping is renamed, the entry under the new key
\* is the last entry of the mapping and the other entries keep their order;
\* when the key is not changed, the entry keeps its position.
C9_RenamedEntryLast ==
    (mPc = "done" /\ MutTargetsMember)
    => /\ (/\ mNewKey.kind = "string"
           /\ mNewKey.val # Last(mPath).val
           /\ IdentifierPattern(mNewKey.val))
            => /\ ~mOut.threw
               /\ Keys(MutParentAfter.val)
                    = Append(Keys(ObjDelete(MutParent.val, Last(mPath).val)),
                             mNewKey.val)
       /\ (mNewKey = Undefined \/ mNewKey = Last(mPath))
            => /\ ~mOut.threw
               /\ Keys(MutParentAfter.val) = Keys(MutParent.val)

----------------------------------------------------------------------------
(* Properties of parseValue and valueToString *)

\* C8: parsing the display string of a primitive x under x's own type gives
\* x back: parseValue(valueToString(x), typeOf(x)) = x.
C8_RoundTrip == cPc = "parsed" => cBack = cX

\* C8: a negative number went through its display string and came back
C8_Witness ==
    /\ cPc = "parsed"
    /\ cX.kind = "number"
    /\ cX.val < 0
    /\ Head(cText) = "-"
    /\ cBack = cX

----------------------------------------------------------------------------
(* Properties of the dialogs *)

\* C4: a save whose key input holds the empty string, only whitespace, or a
\* text that is no identifier (a leading digit, a hyphen) reports a key
\* error, leaves the document text and the snapshot as they were and keeps
\* the edit dialog open; a key made of letters, digits, _ and $ that does not
\* start with a digit passes the validation.
C4_InvalidKeyBlocksSave ==
    [][(handleSave /\ KeyInputShown(selectedNode) /\ selectedNode.hasPath)
        => /\ (\/ Trim(ProposedKey(editState)) = <<>>
               \/ ~IdentifierPattern(ProposedKey(editState)))
              => /\ error' \in {ErrKeyEmpty, ErrKeyInvalid}
                 /\ json' = json
                 /\ selectedNode' = selectedNode
                 /\ editVisible'
           /\ IdentifierPattern(ProposedKey(editState))
              => error' \notin {ErrKeyEmpty, ErrKeyInvalid}]_vars

\* C5: every save ends with isLoading false; a save that cannot succeed (no
\* node path, a key that fails validation, a document text that is no JSON,
\* a non-terminal path segment that reaches no container) sets an error; a
\* save that sets an error leaves the document text and the snapshot exactly
\* as they were and the dialog open; a save that sets none writes a valid
\* document text, puts the edited type and the display form of the typed
\* value in the snapshot's first row and closes the dialog.
C5_SaveAllOrNothing ==
    [][handleSave
        => /\ ~isLoading'
           /\ SaveMustFail(selectedNode, json, editState) => error' # NoError
           /\ error' # NoError
              => /\ json' = json
                 /\ selectedNode' = selectedNode
                 /\ editVisible'
                 /\ saves' = saves
           /\ error' = NoError
              => /\ json'.valid
                 /\ selectedNode'.path = selectedNode.path
                 /\ selectedNode'.text[1].type = editState.type
                 /\ selectedNode'.text[1].value
                      = DisplayValue(parseValue(editState.value, editState.type))
                 /\ ~editVisible'
                 /\ saves' = saves + 1]_vars

\* C5: a save failed on a path the document no longer has, and the document,
\* the snapshot and the dialog are as before
C5_Witness ==
    /\ lastUser = "saveFailed"
    /\ error = ErrType
    /\ editVisible
    /\ json.valid
    /\ saves = 0

\* C5 as first stated: in addition, every save that sets no error changes
\* both the document text and the snapshot.
C5_SuccessChangesBoth ==
    [][handleSave
        => /\ ~isLoading'
           /\ error' # NoError => json' = json /\ selectedNode' = selectedNode
           /\ error' = NoError => json' # json /\ selectedNode' # selectedNode]_vars

\* C6: whenever the edit dialog is open on a node, the first row of the
\* node's snapshot is a primitive: its type is neither object nor array.
C6_EditOnlyPrimitive ==
    (editVisible /\ ~selectedNode.none)
    => /\ Len(selectedNode.text) > 0
       /\ selectedNode.text[1].type \notin {"object", "array"}

\* C7 as first stated: with no callback pending, closing the inspector, or
\* cancelling the editor, leaves both dialogs hidden and nothing pending
\* that would show one again.
C7_CloseClosesAll ==
    [][(/\ timers = <<>>
        /\ (CloseNodeModal /\ ~editVisible) \/ (handleClose /\ ~nodeVisible))
        => /\ ~nodeVisible'
           /\ ~editVisible'
           /\ timers' = <<>>]_vars

\* C7: closing the inspector hides it and schedules nothing; cancelling the
\* editor, like a successful save, hides the editor and schedules the
\* inspector; a dialog becomes visible only by the selection of a node or by
\* a scheduled callback; after a cancel or a successful save the inspector
\* is shown again.
C7_CancelReturnsToInspector ==
    /\ [][CloseNodeModal => ~nodeVisible' /\ timers' = timers]_vars
    /\ [][handleClose
            => ~editVisible' /\ timers' = Append(timers, "NodeModal")]_vars
    /\ [][(handleSave /\ error' = NoError)
            => ~editVisible' /\ timers' = Append(timers, "NodeModal")]_vars
    /\ [][((nodeVisible' /\ ~nodeVisible) \/ (editVisible' /\ ~editVisible))
            => (SelectNode \/ TimerFire)]_vars
    /\ (lastUser \in {"closeEdit", "saveOk"}) ~> nodeVisible

\* C7: the editor was cancelled and the inspector is back
C7_Witness ==
    /\ lastUser = "closeEdit"
    /\ nodeVisible
    /\ ~editVisible
    /\ timers = <<>>

\* C10: the snapshot of the node selected in the current document agrees
\* with the document, also after saves: at the snapshot's path the first row
\* shows the value and type found there, every further row shows the member
\* it names, and no two rows name the same key.
C10_SnapshotAgrees ==
    (/\ fresh
     /\ ~selectedNode.none
     /\ selectedNode.hasPath
     /\ json.valid)
    => SnapshotAgrees(selectedNode, json.value)

====
